---- MODULE Spec2Model ----
(***************************************************************************)
(* A model of mandelbrot-rs (src/main.rs): the MandelbrotGrid evaluator    *)
(* (new, update, draw), the escape-time function get_mondelbrot, the       *)
(* colour mapping steps_to_rgb / hsl_to_rgba, and the event-loop closure   *)
(* of main that pans and zooms the viewport.                               *)
(*                                                                         *)
(* Numbers.  An f64 is modelled as a fixed-point number: the integer v     *)
(* stands for the value v / UNIT.  Addition and subtraction are exact; a   *)
(* multiplication or division rounds its result to the nearest multiple of *)
(* 1 / UNIT, as an f64 operation rounds to the nearest representable       *)
(* value.  A usize is an integer in 0 .. USIZE_MAX.                        *)
(***************************************************************************)
EXTENDS Integers, Sequences, FiniteSets, TLC

VARIABLES
    pc,          \* where the program is: "new", "loop", "idle", "update", "updated",
                 \* "exit", "panicked", "aborted"
    mandelbrot,  \* the MandelbrotGrid (a record of its fields), NoGrid before construction
    paused,      \* main's `paused`
    surface,     \* the size of the presentation surface (pixels.resize_surface)
    screen,      \* the frame buffer draw writes: one 4-byte slot per pixel
    nkeys,       \* how many times the viewport has been adjusted, counted up to the bound
    args,        \* the (width, height) MandelbrotGrid::new is called with
    loop,        \* update's loop counters <<y, x>>, or Done
    writes,      \* per cell, how many times the running update has written it
    by,          \* per cell, the thread that wrote it in the running update
    msg          \* the message of the panic, "" when none

vars == <<pc, mandelbrot, paused, surface, screen, nkeys, args, loop, writes, by, msg>>

(***************************************************************************)
(* Bounds of the model.                                                    *)
(***************************************************************************)
\* The grid main builds (WIDTH x HEIGHT is 1000 x 1000 in the program).
WIDTH == 4
HEIGHT == 2
\* Handler runs that adjust the viewport, per behaviour of Spec.
MaxKeyEvents == 2
\* Viewport adjustments between updates in SpecGrid and SpecOrder.
MaxAdjust == 1
\* SpecOrder's grid is OrderDim x OrderDim.
OrderDim == 2
\* The width of a usize in bits (64 in the program's build).
USIZE_BITS == 7
\* MandelbrotGrid::new is tried with every width and height up to MaxDim (and
\* with the largest isize and usize, see Dims).
MaxDim == 5
\* The iteration cap of get_mondelbrot (MAX_ITERS is 500 in the program).
MAX_ITERS == 20

RECURSIVE Pow(_, _)
Pow(b, e) == IF e = 0 THEN 1 ELSE b * Pow(b, e - 1)

USIZE_MAX == Pow(2, USIZE_BITS) - 1
ISIZE_MAX == Pow(2, USIZE_BITS - 1) - 1

\* The fixed-point quantum is 1 / UNIT.  -2.5 and every step of 20% taken in
\* the first MaxKeyEvents + 1 adjustments are multiples of it, so the viewport
\* arithmetic of Spec is exact.
UNIT == 2 * Pow(5, MaxKeyEvents)

(***************************************************************************)
(* f64 arithmetic.                                                         *)
(***************************************************************************)
Abs(a) == IF a < 0 THEN -a ELSE a

\* The element of a one-element set.  Only({F(v) : v \in {e}}) is F(e) with e
\* evaluated once, however often F uses v.
Only(S) == CHOOSE v \in S : TRUE

Min(a, b) == IF a < b THEN a ELSE b

\* a / b rounded to the nearest integer (b > 0).
RoundDiv(a, b) == (2 * a + b) \div (2 * b)

\* usize as f64
AsF64(n) == n * UNIT

FMul(a, b) == RoundDiv(a * b, UNIT)

FDiv(a, b) == RoundDiv(a * UNIT, b)

\* a % b for a >= 0 and b > 0 (the remainder of f64 is exact)
FRem(a, b) == a % b

RECURSIVE ISqrtIn(_, _, _)
ISqrtIn(n, lo, hi) ==
    IF hi - lo <= 1 THEN lo
    ELSE LET mid == (lo + hi) \div 2
         IN IF mid * mid <= n THEN ISqrtIn(n, mid, hi) ELSE ISqrtIn(n, lo, mid)

\* the square root of a >= 0, rounded down to the quantum
FSqrt(a) == ISqrtIn(a * UNIT, 0, Min(a * UNIT + 1, 46341))

\* f64::powf(a, 1.5) for a >= 0
Powf15(a) == FMul(a, FSqrt(a))

\* `v as u8` of an f64: truncation toward zero, saturating at 0 and 255
AsU8(v) == IF v <= 0 THEN 0 ELSE Min(255, v \div UNIT)

(***************************************************************************)
(* get_mondelbrot (lines 164-174).                                         *)
(***************************************************************************)
\* z.norm() > 2.0, norm being hypot(re, im)
NormGt2(re, im) ==
    \/ Abs(re) > 2 * UNIT
    \/ Abs(im) > 2 * UNIT
    \/ re * re + im * im > 4 * UNIT * UNIT

\* The state of the loop `for i in 0..=MAX_ITERS`: z, the next i, the
\* iterations begun, and the value returned from inside the loop (-1: none).
LoopStart == [zr |-> 0, zi |-> 0, i |-> 0, iters |-> 0, ret |-> -1]

\* One iteration of the loop body for the point c = cr + ci*i.
LoopBody(s, cr, ci) ==
    IF s.ret # -1 THEN s
    ELSE IF NormGt2(s.zr, s.zi)
         THEN [s EXCEPT !.ret = s.i, !.iters = s.iters + 1]
         ELSE [zr |-> FMul(s.zr, s.zr) - FMul(s.zi, s.zi) + cr,
               zi |-> FMul(s.zr, s.zi) + FMul(s.zi, s.zr) + ci,
               i |-> s.i + 1,
               iters |-> s.iters + 1,
               ret |-> -1]

\* n consecutive iterations, split in halves to keep the evaluation shallow.
RECURSIVE LoopRun(_, _, _, _)
LoopRun(s, cr, ci, n) ==
    IF s.ret # -1 \/ n = 0 THEN s
    ELSE IF n = 1 THEN LoopBody(s, cr, ci)
    ELSE Only({LoopRun(h, cr, ci, n - (n \div 2)) : h \in {LoopRun(s, cr, ci, n \div 2)}})

\* MandelLoop with the range one too long (0..=MAX_ITERS + 1)
MandelLoop_long(x, y) == LoopRun(LoopStart, x, y, MAX_ITERS + 2)

\* The loop run to its end: every i of 0..=MAX_ITERS, or until the return.
MandelLoop(x, y) == LoopRun(LoopStart, x, y, MAX_ITERS + 1)

get_mondelbrot(x, y) ==
    Only({IF s.ret # -1 THEN s.ret ELSE MAX_ITERS : s \in {MandelLoop(x, y)}})

(***************************************************************************)
(* steps_to_rgb and hsl_to_rgba (lines 240-285).                           *)
(***************************************************************************)
hsl_to_rgba(h, s, l) ==
    LET h_norm == RoundDiv(h, 360)
        s_norm == RoundDiv(s, 100)
        l_norm == RoundDiv(l, 100)
        c == FMul(UNIT - Abs(2 * l_norm - UNIT), s_norm)
        x == FMul(c, UNIT - Abs(FRem(6 * h_norm, 2 * UNIT) - UNIT))
        m == l_norm - RoundDiv(c, 2)
        rgb == IF h_norm < RoundDiv(UNIT, 6) THEN <<c, x, 0>>
               ELSE IF h_norm < RoundDiv(2 * UNIT, 6) THEN <<x, c, 0>>
               ELSE IF h_norm < RoundDiv(3 * UNIT, 6) THEN <<0, c, x>>
               ELSE IF h_norm < RoundDiv(4 * UNIT, 6) THEN <<0, x, c>>
               ELSE IF h_norm < RoundDiv(5 * UNIT, 6) THEN <<x, 0, c>>
               ELSE <<c, 0, x>>
    IN <<AsU8(255 * (rgb[1] + m)), AsU8(255 * (rgb[2] + m)), AsU8(255 * (rgb[3] + m)), 255>>

steps_to_rgb(steps) ==
    Only({hsl_to_rgba(FRem(Powf15(360 * norm_steps), 360 * UNIT), 50 * UNIT, 100 * norm_steps) :
            norm_steps \in {FDiv(AsF64(steps), AsF64(MAX_ITERS))}})

(***************************************************************************)
(* Cell and MandelbrotGrid (lines 176-238).                                *)
(***************************************************************************)
\* update's loop counters once the loops have ended
Done == <<-1, -1>>

\* #[derive(Default)]: steps 0 and an empty colour vector
Cell_default == [steps |-> 0, color |-> <<>>]

\* Cell::new (never called by the program)
Cell_new == [steps |-> 0, color |-> <<0, 0, 0, 0>>]

\* size_of::<Cell>() in machine words: steps, and the pointer, capacity and
\* length of the colour vector
CELL_WORDS == 4

\* checked_mul replaced by a wrapping multiplication
checked_mul_wrapping(a, b) == (a * b) % (USIZE_MAX + 1)

\* usize::checked_mul: the product, or -1 for None
checked_mul(a, b) == IF a * b > USIZE_MAX THEN -1 ELSE a * b

\* vec![elem; n]: a vector whose byte size would exceed isize::MAX is refused
\* ("capacity overflow"); CellVec is the vector otherwise
VecFits(n) == n * CELL_WORDS <= ISIZE_MAX

CellVec(elem, n) == [i \in 0 .. n - 1 |-> elem]

\* MandelbrotGrid::new: [ok |-> TRUE, grid |-> ...] or the panic's message
new(width, height) ==
    LET size == checked_mul(width, height)
    IN IF size = -1 THEN [ok |-> FALSE, msg |-> "too big"]
       ELSE IF ~VecFits(size) THEN [ok |-> FALSE, msg |-> "capacity overflow"]
       ELSE [ok |-> TRUE,
             grid |-> [width |-> width,
                       height |-> height,
                       cells |-> CellVec(Cell_default, size),
                       min_x |-> -((5 * UNIT) \div 2),
                       max_x |-> (5 * UNIT) \div 2,
                       min_y |-> -((5 * UNIT) \div 2),
                       max_y |-> (5 * UNIT) \div 2]]

\* the value of `mandelbrot` before MandelbrotGrid::new has returned
NoGrid ==
    [width |-> -1, height |-> -1, cells |-> CellVec(Cell_default, 0),
     min_x |-> 0, max_x |-> 0, min_y |-> 0, max_y |-> 0]

Len_cells(g) == Cardinality(DOMAIN g.cells)

\* PlaneX with the column divided by the height
PlaneX_height(g, x) ==
    FMul(FDiv(AsF64(x) - 0, AsF64(g.height) - 0), g.max_x - g.min_x) + g.min_x

\* lines 219-220: the plane coordinate of pixel column x
PlaneX(g, x) ==
    FMul(FDiv(AsF64(x) - 0, AsF64(g.width) - 0), g.max_x - g.min_x) + g.min_x

\* lines 221-222: the plane coordinate of pixel row y
PlaneY(g, y) ==
    FMul(FDiv(AsF64(y) - 0, AsF64(g.height) - 0), g.max_y - g.min_y) + g.min_y

\* CellIndex with the row stride taken from the height
CellIndex_height(g, x, y) == x + y * g.height

\* line 218
CellIndex(g, x, y) == x + y * g.width

\* UpdatePixel with the steps added to the cell's (`+=` for `=`)
UpdatePixel_adding(g, x, y) ==
    LET idx == x + y * g.width
    IN Only({IF idx \notin DOMAIN g.cells THEN [ok |-> FALSE, grid |-> g]
             ELSE [ok |-> TRUE,
                   grid |-> [g EXCEPT !.cells[idx].steps = @ + steps,
                                      !.cells[idx].color = steps_to_rgb(steps)]] :
               steps \in {get_mondelbrot(PlaneX(g, x), PlaneY(g, y))}})

\* lines 218-226: the body of update's loops for pixel (x, y); indexing
\* cells out of range panics (ok is then FALSE)
UpdatePixel(g, x, y) ==
    LET idx == CellIndex(g, x, y)
    IN Only({IF idx \notin DOMAIN g.cells THEN [ok |-> FALSE, grid |-> g]
             ELSE [ok |-> TRUE,
                   grid |-> [g EXCEPT !.cells[idx].steps = steps,
                                      !.cells[idx].color = steps_to_rgb(steps)]] :
               steps \in {get_mondelbrot(PlaneX(g, x), PlaneY(g, y))}})

\* lines 216-217: the first <<y, x>> the loops reach, and the one after
\* <<y, x>>
LoopFirst(g) == IF g.height > 0 /\ g.width > 0 THEN <<0, 0>> ELSE Done

\* LoopAdvance with the loops nested the other way round (x outside, y inside)
LoopAdvance_columns(g, pos) ==
    IF pos[1] + 1 < g.height THEN <<pos[1] + 1, pos[2]>>
    ELSE IF pos[2] + 1 < g.width THEN <<0, pos[2] + 1>>
    ELSE <<-1, -1>>

LoopAdvance(g, pos) ==
    IF pos[2] + 1 < g.width THEN <<pos[1], pos[2] + 1>>
    ELSE IF pos[1] + 1 < g.height THEN <<pos[1] + 1, 0>>
    ELSE Done

RECURSIVE UpdateFrom(_, _)
UpdateFrom(g, pos) ==
    IF pos = Done THEN [ok |-> TRUE, grid |-> g]
    ELSE Only({IF r.ok
               THEN Only({UpdateFrom(g1, nxt) : g1 \in {r.grid}, nxt \in {LoopAdvance(g, pos)}})
               ELSE r :
                 r \in {UpdatePixel(g, pos[2], pos[1])}})

\* MandelbrotGrid::update, run to its end: the grid it leaves, and whether it
\* returned (ok) or panicked
update(g) == UpdateFrom(g, LoopFirst(g))

\* draw moving each colour out of its cell instead of copying it
draw_taking(g, scr) ==
    LET both == DOMAIN g.cells \cap DOMAIN scr
    IN IF \E i \in both : Len(g.cells[i].color) # Len(scr[i])
       THEN [ok |-> FALSE, screen |-> scr, grid |-> g]
       ELSE [ok |-> TRUE,
             screen |-> [i \in DOMAIN scr |->
                            IF i \in both THEN g.cells[i].color ELSE scr[i]],
             grid |-> [g EXCEPT !.cells = [i \in DOMAIN g.cells |->
                                             [g.cells[i] EXCEPT !.color = <<>>]]]]

\* MandelbrotGrid::draw(&mut self, screen): each cell's colour copied into its
\* 4-byte slot of the screen; copy_from_slice panics when the lengths differ
\* (ok is then FALSE).  grid is the grid draw leaves.
draw(g, scr) ==
    LET both == DOMAIN g.cells \cap DOMAIN scr
    IN IF \E i \in both : Len(g.cells[i].color) # Len(scr[i])
       THEN [ok |-> FALSE, screen |-> scr, grid |-> g]
       ELSE [ok |-> TRUE,
             screen |-> [i \in DOMAIN scr |->
                            IF i \in both THEN g.cells[i].color ELSE scr[i]],
             grid |-> g]

(***************************************************************************)
(* The closure main hands to event_loop.run (lines 47-162).                *)
(***************************************************************************)
Keys == {"Escape", "P", "Space", "W", "S", "Left", "Right", "Up", "Down"}

ViewKeys == {"W", "S", "Left", "Right", "Up", "Down"}

\* the f64 constant 0.2
F02 == UNIT \div 5

\* lines 121-122
x_step(g) == FMul(g.max_x - g.min_x, F02)

y_step(g) == FMul(g.max_y - g.min_y, F02)

\* Adjust with Right's second assignment copied from W's (max_x - x_step)
Adjust_right(key, g, xs, ys) ==
    CASE key = "W" ->
           [g EXCEPT !.min_x = @ + xs, !.max_x = @ - xs, !.min_y = @ + ys, !.max_y = @ - ys]
      [] key = "S" ->
           [g EXCEPT !.min_x = @ - xs, !.max_x = @ + xs, !.min_y = @ - ys, !.max_y = @ + ys]
      [] key = "Left" -> [g EXCEPT !.min_x = @ - xs, !.max_x = @ - xs]
      [] key = "Right" -> [g EXCEPT !.min_x = @ + xs, !.max_x = @ - xs]
      [] key = "Up" -> [g EXCEPT !.min_y = @ - ys, !.max_y = @ - ys]
      [] key = "Down" -> [g EXCEPT !.min_y = @ + ys, !.max_y = @ + ys]
      [] OTHER -> g

\* The assignments of the branch of `key` (lines 124-127, 131-134, 138-139,
\* 143-144, 148-149, 153-154); Space assigns nothing.
Adjust(key, g, xs, ys) ==
    CASE key = "W" ->
           [g EXCEPT !.min_x = @ + xs, !.max_x = @ - xs, !.min_y = @ + ys, !.max_y = @ - ys]
      [] key = "S" ->
           [g EXCEPT !.min_x = @ - xs, !.max_x = @ + xs, !.min_y = @ - ys, !.max_y = @ + ys]
      [] key = "Left" -> [g EXCEPT !.min_x = @ - xs, !.max_x = @ - xs]
      [] key = "Right" -> [g EXCEPT !.min_x = @ + xs, !.max_x = @ + xs]
      [] key = "Up" -> [g EXCEPT !.min_y = @ - ys, !.max_y = @ - ys]
      [] key = "Down" -> [g EXCEPT !.min_y = @ + ys, !.max_y = @ + ys]
      [] OTHER -> g

\* KeyBranch with the update missing from the branch of Down
KeyBranch_down(r, key, keys, xs, ys) ==
    IF ~r.ok \/ key \notin keys THEN r
    ELSE IF key = "Down" THEN [ok |-> TRUE, grid |-> Adjust(key, r.grid, xs, ys)]
    ELSE Only({update(g) : g \in {Adjust(key, r.grid, xs, ys)}})

\* One `if input.key_pressed_os(key) { ...; mandelbrot.update(); }`
KeyBranch(r, key, keys, xs, ys) ==
    IF ~r.ok \/ key \notin keys THEN r
    ELSE Only({update(g) : g \in {Adjust(key, r.grid, xs, ys)}})

\* lines 121-159: the steps, computed once, then the seven branches in order
BranchOrder == <<"W", "S", "Left", "Right", "Up", "Down", "Space">>

RECURSIVE BranchesFrom(_, _, _, _, _)
BranchesFrom(r, n, keys, xs, ys) ==
    IF n > Len(BranchOrder) THEN r
    ELSE Only({BranchesFrom(r1, n + 1, keys, xs, ys) :
                 r1 \in {KeyBranch(r, BranchOrder[n], keys, xs, ys)}})

KeyBranches(g, keys) ==
    Only({BranchesFrom([ok |-> TRUE, grid |-> g], 1, keys, xs, ys) :
            xs \in {x_step(g)}, ys \in {y_step(g)}})

\* input.window_resized() when no resize happened
NoResize == <<>>

\* MainGrid without line 42's update
MainGrid_new ==
    Only({IF r.ok THEN r ELSE [ok |-> FALSE, grid |-> NoGrid] : r \in {new(WIDTH, HEIGHT)}})

\* lines 41-42: the grid main enters the event loop with
MainGrid ==
    Only({IF r.ok THEN update(r.grid) ELSE [ok |-> FALSE, grid |-> NoGrid] :
            r \in {new(WIDTH, HEIGHT)}})

\* Pixels::new(WIDTH, HEIGHT, ..): a zeroed frame of WIDTH * HEIGHT RGBA slots
Frame == [i \in 0 .. WIDTH * HEIGHT - 1 |-> <<0, 0, 0, 0>>]

NoLoop == [i \in {} |-> 0]

\* lines 49-56: Event::RedrawRequested; render_ok is what pixels.render()
\* answers
RedrawRequested(render_ok) ==
    /\ pc = "loop"
    /\ \E d \in {draw(mandelbrot, screen)} :
          /\ screen' = d.screen
          /\ mandelbrot' = d.grid
          /\ pc' = IF ~d.ok THEN "panicked" ELSE IF render_ok THEN "loop" ELSE "exit"
          /\ msg' = IF ~d.ok THEN "copy_from_slice" ELSE msg
    /\ UNCHANGED <<paused, surface, nkeys, args, loop, writes, by>>

\* lines 60-161: the body run when input.update(&event) answers true, with
\* the keys pressed in this step, whether a close was requested, the size of
\* a window resize (or NoResize) and what pixels.resize_surface answers.  The
\* mouse block (lines 75-112) assigns nothing: draw_state is always None.
MainEventsCleared(keys, close, resized, resize_ok) ==
    /\ pc = "loop"
    /\ UNCHANGED <<screen, args, loop, writes, by>>
    /\ IF "Escape" \in keys \/ close
       THEN /\ pc' = "exit"
            /\ UNCHANGED <<mandelbrot, paused, surface, nkeys, msg>>
       ELSE /\ paused' = IF "Space" \in keys THEN TRUE
                         ELSE IF "P" \in keys THEN ~paused ELSE paused
            /\ IF resized # NoResize /\ ~resize_ok
               THEN /\ pc' = "exit"
                    /\ UNCHANGED <<mandelbrot, surface, nkeys, msg>>
               ELSE \E r \in {KeyBranches(mandelbrot, keys)} :
                       /\ surface' = IF resized # NoResize THEN resized ELSE surface
                       /\ mandelbrot' = r.grid
                       /\ pc' = IF r.ok THEN "loop" ELSE "panicked"
                       /\ msg' = IF r.ok THEN msg ELSE "index out of bounds"
                       /\ nkeys' = IF keys \cap ViewKeys # {} /\ nkeys < MaxKeyEvents
                                   THEN nkeys + 1 ELSE nkeys

\* The key sets a handler run is tried with: no key, every single key, pairs
\* of viewport keys (opposite ones, and a zoom with a pan), and all six
\* viewport keys together.
KeySets ==
    {{}} \cup {{k} : k \in Keys}
    \cup {{"W", "S"}, {"Left", "Right"}, {"Up", "Down"}}
    \cup {{"W", "Right"}, {"S", "Down"}, {"Left", "Up"}}
    \cup {ViewKeys}

Surfaces == {<<WIDTH, HEIGHT>>, <<2 * WIDTH, 2 * HEIGHT>>}

\* What the environment hands a handler run besides the keys.
Plain == [close |-> FALSE, resized |-> NoResize, resize_ok |-> TRUE]

Inputs ==
    {[keys |-> ks, env |-> Plain] : ks \in KeySets}
    \cup {[keys |-> ks, env |-> [close |-> TRUE, resized |-> NoResize, resize_ok |-> TRUE]] :
            ks \in {{"W"}}}
    \cup {[keys |-> ks, env |-> [close |-> FALSE, resized |-> sz, resize_ok |-> ok]] :
            ks \in {{}, {"W"}}, sz \in Surfaces, ok \in BOOLEAN}

Init ==
    /\ pc = IF MainGrid.ok THEN "loop" ELSE "panicked"
    /\ mandelbrot = MainGrid.grid
    /\ paused = FALSE
    /\ surface = <<WIDTH, HEIGHT>>
    /\ screen = Frame
    /\ nkeys = 0
    /\ args = <<WIDTH, HEIGHT>>
    /\ loop = Done
    /\ writes = NoLoop
    /\ by = NoLoop
    /\ msg = ""

Redraw == \E render_ok \in BOOLEAN : RedrawRequested(render_ok)

Handle ==
    \E in \in Inputs :
        /\ in.keys \cap ViewKeys # {} => nkeys < MaxKeyEvents
        /\ MainEventsCleared(in.keys, in.env.close, in.env.resized, in.env.resize_ok)

Next == Redraw \/ Handle

Spec == Init /\ [][Next]_vars

(***************************************************************************)
(* SpecDeep: the program under single key presses, any of them in its      *)
(* first MaxKeyEvents adjustments and W (zoom in) without limit after.     *)
(***************************************************************************)
DeepKey ==
    \E k \in ViewKeys :
        /\ k = "W" \/ nkeys < MaxKeyEvents
        /\ MainEventsCleared({k}, FALSE, NoResize, TRUE)

DeepSpace == MainEventsCleared({"Space"}, FALSE, NoResize, TRUE)

NextDeep == DeepKey \/ DeepSpace

SpecDeep == Init /\ [][NextDeep]_vars

(***************************************************************************)
(* SpecGrid: MandelbrotGrid::new called with any width and height, then    *)
(* update run one loop iteration per step, with the viewport fields        *)
(* assigned between updates as main's key branches assign them.            *)
(***************************************************************************)
\* The threads that run update's loops: update spawns none, so the caller's.
UpdateThreads == {"main"}

\* the widths and heights MandelbrotGrid::new is tried with
Dims == (0 .. MaxDim) \cup {ISIZE_MAX, USIZE_MAX}

InitGrid ==
    /\ pc = "new"
    /\ mandelbrot = NoGrid
    /\ paused = FALSE
    /\ surface = <<WIDTH, HEIGHT>>
    /\ screen = Frame
    /\ nkeys = 0
    /\ args \in Dims \X Dims
    /\ loop = Done
    /\ writes = NoLoop
    /\ by = NoLoop
    /\ msg = ""

\* let mut mandelbrot = MandelbrotGrid::new(width, height).  The allocator
\* may have no memory for a non-empty vector of cells: the process aborts.
New ==
    /\ pc = "new"
    /\ \E r \in {new(args[1], args[2])}, memory \in BOOLEAN :
          IF ~r.ok
          THEN /\ pc' = "panicked"
               /\ msg' = r.msg
               /\ UNCHANGED mandelbrot
          ELSE IF memory \/ Len_cells(r.grid) = 0
          THEN /\ mandelbrot' = r.grid
               /\ pc' = "idle"
               /\ UNCHANGED msg
          ELSE /\ pc' = "aborted"
               /\ msg' = "memory allocation failed"
               /\ UNCHANGED mandelbrot
    /\ UNCHANGED <<paused, surface, screen, nkeys, args, loop, writes, by>>

\* the caller assigns the viewport fields (one key branch, without its update)
AdjustView ==
    /\ pc \in {"idle", "updated"}
    /\ nkeys < MaxAdjust
    /\ \E key \in ViewKeys :
          mandelbrot' = Adjust(key, mandelbrot, x_step(mandelbrot), y_step(mandelbrot))
    /\ nkeys' = nkeys + 1
    /\ pc' = "idle"
    /\ UNCHANGED <<paused, surface, screen, args, loop, writes, by, msg>>

\* mandelbrot.update() is entered
UpdateBegin ==
    /\ pc \in {"idle", "updated"}
    /\ pc' = "update"
    /\ loop' = LoopFirst(mandelbrot)
    /\ writes' = [i \in DOMAIN mandelbrot.cells |-> 0]
    /\ by' = [i \in DOMAIN mandelbrot.cells |-> "none"]
    /\ UNCHANGED <<mandelbrot, paused, surface, screen, nkeys, args, msg>>

\* one iteration of the inner loop, run by thread t
UpdateStep ==
    /\ pc = "update"
    /\ loop # Done
    /\ \E t \in UpdateThreads, r \in {UpdatePixel(mandelbrot, loop[2], loop[1])} :
          IF r.ok
          THEN LET idx == CellIndex(mandelbrot, loop[2], loop[1])
               IN /\ mandelbrot' = r.grid
                  /\ writes' = [writes EXCEPT ![idx] = @ + 1]
                  /\ by' = [by EXCEPT ![idx] = t]
                  /\ loop' = LoopAdvance(mandelbrot, loop)
                  /\ UNCHANGED <<pc, msg>>
          ELSE /\ pc' = "panicked"
               /\ msg' = "index out of bounds"
               /\ UNCHANGED <<mandelbrot, writes, by, loop>>
    /\ UNCHANGED <<paused, surface, screen, nkeys, args>>

\* both loops have ended: update returns
UpdateEnd ==
    /\ pc = "update"
    /\ loop = Done
    /\ pc' = "updated"
    /\ UNCHANGED <<mandelbrot, paused, surface, screen, nkeys, args, loop, writes, by, msg>>

NextGrid == New \/ AdjustView \/ UpdateBegin \/ UpdateStep \/ UpdateEnd

SpecGrid == InitGrid /\ [][NextGrid]_vars

(***************************************************************************)
(* SpecOrder: the body of update's loops applied to the pixels of a grid in *)
(* every order, over whatever an earlier update left in the cells.         *)
(***************************************************************************)
InitOrder ==
    /\ pc = "idle"
    /\ mandelbrot = new(OrderDim, OrderDim).grid
    /\ paused = FALSE
    /\ surface = <<WIDTH, HEIGHT>>
    /\ screen = Frame
    /\ nkeys = 0
    /\ args = <<OrderDim, OrderDim>>
    /\ loop = Done
    /\ writes = NoLoop
    /\ by = NoLoop
    /\ msg = ""

\* the viewport is zoomed or panned between two updates
OrderAdjust ==
    /\ pc \in {"idle", "updated"}
    /\ nkeys < MaxAdjust
    /\ \E key \in {"W", "Right", "Down"} :
          mandelbrot' = Adjust(key, mandelbrot, x_step(mandelbrot), y_step(mandelbrot))
    /\ nkeys' = nkeys + 1
    /\ pc' = "idle"
    /\ UNCHANGED <<paused, surface, screen, args, loop, writes, by, msg>>

\* the loop body for any pixel not yet evaluated in this update
EvalAny ==
    /\ pc = "update"
    /\ \E y \in 0 .. mandelbrot.height - 1, x \in 0 .. mandelbrot.width - 1 :
          /\ writes[CellIndex(mandelbrot, x, y)] = 0
          /\ \E r \in {UpdatePixel(mandelbrot, x, y)} :
                /\ r.ok
                /\ mandelbrot' = r.grid
          /\ writes' = [writes EXCEPT ![CellIndex(mandelbrot, x, y)] = 1]
    /\ UNCHANGED <<pc, paused, surface, screen, nkeys, args, loop, by, msg>>

\* every pixel has been evaluated
OrderEnd ==
    /\ pc = "update"
    /\ \A i \in DOMAIN writes : writes[i] = 1
    /\ pc' = "updated"
    /\ UNCHANGED <<mandelbrot, paused, surface, screen, nkeys, args, loop, writes, by, msg>>

NextOrder == OrderAdjust \/ UpdateBegin \/ EvalAny \/ OrderEnd

SpecOrder == InitOrder /\ [][NextOrder]_vars

(***************************************************************************)
(* Properties of MandelbrotGrid, checked under SpecGrid.                   *)
(***************************************************************************)
Constructed == pc \in {"idle", "update", "updated"}

\* the pixels <<x, y>> of grid g
PixelsOf(g) == (0 .. g.width - 1) \X (0 .. g.height - 1)

RECURSIVE SumTo(_, _)
SumTo(f, n) == IF n = 0 THEN 0 ELSE f[n - 1] + SumTo(f, n - 1)

\* the loop iterations the running update has executed
Evals == SumTo(writes, Cardinality(DOMAIN writes))

\* C1: when update has returned, the cell at index x + y * width of every
\* pixel (x, y) holds steps = get_mondelbrot of the pixel's plane point under
\* the current bounds and color = steps_to_rgb(steps); every one of the
\* width * height cells has been written, and none by two pixels.
C1_UpdateFillsGrid ==
    pc = "updated" =>
        /\ \A p \in PixelsOf(mandelbrot) :
              LET c == mandelbrot.cells[p[1] + p[2] * mandelbrot.width]
              IN /\ c.steps = get_mondelbrot(PlaneX(mandelbrot, p[1]), PlaneY(mandelbrot, p[2]))
                 /\ c.color = steps_to_rgb(c.steps)
        /\ Len_cells(mandelbrot) = mandelbrot.width * mandelbrot.height
        /\ \A i \in DOMAIN mandelbrot.cells : writes[i] = 1

C1_Witness ==
    /\ pc = "updated"
    /\ nkeys > 0
    /\ mandelbrot.width = WIDTH
    /\ mandelbrot.height = HEIGHT
    /\ \E i, j \in DOMAIN mandelbrot.cells : mandelbrot.cells[i].steps # mandelbrot.cells[j].steps

Position(g, pos) ==
    IF pos = Done THEN g.width * g.height ELSE pos[1] * g.width + pos[2]

C4_Bounded ==
    Constructed =>
        /\ \A p \in PixelsOf(mandelbrot) :
              LET x == PlaneX(mandelbrot, p[1])
                  y == PlaneY(mandelbrot, p[2])
              IN /\ MandelLoop(x, y).iters <= MAX_ITERS + 1
                 /\ get_mondelbrot(x, y) \in 0 .. MAX_ITERS
        /\ pc = "update" => Evals = Position(mandelbrot, loop)
        /\ pc = "updated" => Evals = mandelbrot.width * mandelbrot.height

C4_Witness ==
    /\ pc = "updated"
    /\ mandelbrot.width = WIDTH
    /\ Evals = WIDTH * HEIGHT
    /\ \E i \in DOMAIN mandelbrot.cells : mandelbrot.cells[i].steps = MAX_ITERS
    /\ \E p \in PixelsOf(mandelbrot) :
          MandelLoop(PlaneX(mandelbrot, p[1]), PlaneY(mandelbrot, p[2])).iters = MAX_ITERS + 1
    /\ \E i \in DOMAIN mandelbrot.cells : mandelbrot.cells[i].steps \in 1 .. MAX_ITERS - 1

InitialBounds(g) ==
    /\ g.min_x = -((5 * UNIT) \div 2)
    /\ g.max_x = (5 * UNIT) \div 2
    /\ g.min_y = -((5 * UNIT) \div 2)
    /\ g.max_y = (5 * UNIT) \div 2

\* every index update's loop is about to use is within cells
IndexInRange ==
    (pc = "update" /\ loop # Done) =>
        loop[2] + loop[1] * mandelbrot.width < Len_cells(mandelbrot)

\* C5 as stated: new fails, with "too big", exactly when width * height
\* overflows usize, and otherwise returns a grid of width * height cells with
\* bounds [-2.5, 2.5]; no update fails after it.
C5_OnlyOverflow ==
    pc # "new" =>
        /\ (pc \in {"panicked", "aborted"}) <=> (args[1] * args[2] > USIZE_MAX)
        /\ pc = "panicked" => msg = "too big"
        /\ (pc = "idle" /\ nkeys = 0) =>
              /\ Len_cells(mandelbrot) = args[1] * args[2]
              /\ InitialBounds(mandelbrot)
        /\ IndexInRange

\* C5 amended: new panics with "too big" exactly when width * height overflows
\* usize; a product that fits still fails in the allocation of the cells: with
\* the panic "capacity overflow" exactly when the cells' byte size exceeds
\* isize::MAX, and by an abort when the allocator has no memory for a
\* non-empty vector.  Whenever new returns, the grid has exactly
\* width * height cells, the given width and height and bounds [-2.5, 2.5];
\* after it every index x + y * width that update computes is below
\* cells.len(), also for a width or height of 0.
C5_NewAndUpdate ==
    pc # "new" =>
        /\ (pc = "panicked" /\ msg = "too big") <=> (args[1] * args[2] > USIZE_MAX)
        /\ (pc = "panicked" /\ msg = "capacity overflow") <=>
              /\ args[1] * args[2] <= USIZE_MAX
              /\ args[1] * args[2] * CELL_WORDS > ISIZE_MAX
        /\ pc = "panicked" => msg \in {"too big", "capacity overflow"}
        /\ pc = "aborted" =>
              /\ msg = "memory allocation failed"
              /\ args[1] * args[2] > 0
              /\ args[1] * args[2] * CELL_WORDS <= ISIZE_MAX
        /\ Constructed =>
              /\ mandelbrot.width = args[1]
              /\ mandelbrot.height = args[2]
              /\ Len_cells(mandelbrot) = args[1] * args[2]
        /\ (pc = "idle" /\ nkeys = 0) =>
              /\ InitialBounds(mandelbrot)
              /\ \A i \in DOMAIN mandelbrot.cells : mandelbrot.cells[i] = Cell_default
        /\ IndexInRange

C5_Witness ==
    /\ pc = "updated"
    /\ mandelbrot.width = 0
    /\ mandelbrot.height = MaxDim
    /\ Len_cells(mandelbrot) = 0

(***************************************************************************)
(* Properties of update's loop body, checked under SpecOrder.              *)
(***************************************************************************)
\* a newly constructed grid of g's size given g's bounds, updated in
\* row-major order
RowMajor(g) ==
    update([new(g.width, g.height).grid EXCEPT
               !.min_x = g.min_x, !.max_x = g.max_x, !.min_y = g.min_y, !.max_y = g.max_y]).grid

\* C3: what the loop body writes to a cell depends on the pixel, the size and
\* the bounds alone, not on the order of the evaluations, on other cells or
\* on what the cell held: in whatever order the pixels are evaluated, and
\* over whatever an earlier update left, every cell written so far holds
\* what a row-major update of a new grid under the same bounds gives it, and
\* so does the whole grid at the end.
C3_OrderIndependent ==
    pc \in {"update", "updated"} =>
        \A ref \in {RowMajor(mandelbrot)} :
            /\ \A i \in DOMAIN mandelbrot.cells :
                  writes[i] = 1 => mandelbrot.cells[i] = ref.cells[i]
            /\ pc = "updated" => mandelbrot.cells = ref.cells

C3_Witness ==
    /\ pc = "update"
    /\ nkeys > 0
    /\ \E i, j \in DOMAIN mandelbrot.cells :
          /\ i < j
          /\ writes[i] = 0
          /\ writes[j] = 1
          /\ Len(mandelbrot.cells[i].color) = 4
          /\ mandelbrot.cells[i] # RowMajor(mandelbrot).cells[i]

(***************************************************************************)
(* Properties of the viewport transform, checked under SpecDeep.           *)
(***************************************************************************)
Increasing(f(_), n) == \A a \in 0 .. n - 2 : f(a) < f(a + 1)

NonDecreasing(f(_), n) == \A a \in 0 .. n - 2 : f(a) <= f(a + 1)

FreshCell(g, p) ==
    Only({[steps |-> st, color |-> steps_to_rgb(st)] :
            st \in {get_mondelbrot(PlaneX(g, p[1]), PlaneY(g, p[2]))}})

SizeFixed ==
    /\ mandelbrot.width = WIDTH
    /\ mandelbrot.height = HEIGHT
    /\ Len_cells(mandelbrot) = mandelbrot.width * mandelbrot.height

\* C7: in every state the grid's width and height are those it was built
\* with and cells.len() = width * height; a handler run that only resizes
\* the window changes the surface and nothing of the grid, the screen or
\* paused; and a redraw changes no field of the grid.
C7_FixedResolution ==
    /\ []SizeFixed
    /\ [][\A sz \in Surfaces :
             MainEventsCleared({}, FALSE, sz, TRUE) =>
                 /\ surface' = sz
                 /\ UNCHANGED <<mandelbrot, screen, paused, pc>>]_vars
    /\ [][(\E ok \in BOOLEAN : RedrawRequested(ok)) => mandelbrot' = mandelbrot]_vars

C7_Witness ==
    /\ pc = "loop"
    /\ SizeFixed
    /\ surface # <<WIDTH, HEIGHT>>
    /\ screen # Frame
    /\ nkeys = MaxKeyEvents
    /\ paused

CellsFresh ==
    pc = "loop" =>
        \A p \in PixelsOf(mandelbrot) :
            mandelbrot.cells[p[1] + p[2] * mandelbrot.width] = FreshCell(mandelbrot, p)

\* C8: in every state in which a frame can be drawn the cells are the
\* evaluation of the grid under the current bounds, whatever keys the
\* handler runs before were given; and what a redraw copies to the screen
\* is that evaluation's colours.
C8_FreshFrames ==
    /\ []CellsFresh
    /\ [][(\E ok \in BOOLEAN : RedrawRequested(ok)) =>
             \A p \in PixelsOf(mandelbrot) :
                 screen'[p[1] + p[2] * mandelbrot.width] = FreshCell(mandelbrot, p).color]_vars

C8_Witness ==
    /\ pc = "loop"
    /\ nkeys = MaxKeyEvents
    /\ ~InitialBounds(mandelbrot)
    /\ mandelbrot.max_x - mandelbrot.min_x # 5 * UNIT
    /\ \A i \in DOMAIN screen : screen[i] = mandelbrot.cells[i].color
    /\ \E i, j \in DOMAIN screen : screen[i] # screen[j]

\* C9: with exact arithmetic (every 20% step an exact multiple of the
\* quantum), the viewport keeps min < max on both axes and equal extents;
\* a pan key shifts both bounds of its axis by the step and leaves both
\* extents unchanged, and W and S change both extents, by two steps.
C9_Viewport ==
    pc = "loop" =>
        LET g == mandelbrot
            xs == x_step(g)
            ys == y_step(g)
            ex(a) == a.max_x - a.min_x
            ey(a) == a.max_y - a.min_y
            A(key) == Adjust(key, g, xs, ys)
        IN /\ g.min_x < g.max_x
           /\ g.min_y < g.max_y
           /\ ex(g) = ey(g)
           /\ nkeys < MaxKeyEvents => 5 * xs = ex(g) /\ 5 * ys = ey(g)
           /\ \A key \in {"Left", "Right", "Up", "Down"} :
                 ex(A(key)) = ex(g) /\ ey(A(key)) = ey(g)
           /\ A("Left").min_x = g.min_x - xs /\ A("Left").max_x = g.max_x - xs
           /\ A("Right").min_x = g.min_x + xs /\ A("Right").max_x = g.max_x + xs
           /\ A("Up").min_y = g.min_y - ys /\ A("Up").max_y = g.max_y - ys
           /\ A("Down").min_y = g.min_y + ys /\ A("Down").max_y = g.max_y + ys
           /\ \A key \in {"Left", "Right"} :
                 A(key).min_y = g.min_y /\ A(key).max_y = g.max_y
           /\ \A key \in {"Up", "Down"} :
                 A(key).min_x = g.min_x /\ A(key).max_x = g.max_x
           /\ ex(A("W")) = ex(g) - 2 * xs /\ ey(A("W")) = ey(g) - 2 * ys
           /\ ex(A("S")) = ex(g) + 2 * xs /\ ey(A("S")) = ey(g) + 2 * ys

C9_Witness ==
    /\ pc = "loop"
    /\ nkeys = MaxKeyEvents
    /\ mandelbrot.max_x - mandelbrot.min_x \notin {5 * UNIT, 3 * UNIT, 7 * UNIT}
    /\ mandelbrot.max_x - mandelbrot.min_x = mandelbrot.max_y - mandelbrot.min_y
    /\ mandelbrot.min_x + mandelbrot.max_x # 0
    /\ mandelbrot.min_y + mandelbrot.max_y # 0

\* C10: a newly constructed grid has empty colours (Cell::default, not
\* Cell::new) and draw fails on it; the program never panics, and in every
\* state in which it can call draw every cell's colour has 4 bytes with alpha
\* 255, so that draw succeeds.
C10_DrawSafe ==
    /\ pc # "panicked"
    /\ \A r \in {new(WIDTH, HEIGHT)} :
          /\ r.ok
          /\ \A i \in DOMAIN r.grid.cells :
                r.grid.cells[i] = Cell_default /\ r.grid.cells[i] # Cell_new
          /\ ~draw(r.grid, Frame).ok
    /\ pc = "loop" =>
          /\ \A i \in DOMAIN mandelbrot.cells :
                /\ Len(mandelbrot.cells[i].color) = 4
                /\ mandelbrot.cells[i].color[4] = 255
          /\ draw(mandelbrot, screen).ok

C10_Witness ==
    /\ pc = "loop"
    /\ screen # Frame
    /\ nkeys > 0
    /\ \A i \in DOMAIN screen : Len(screen[i]) = 4 /\ screen[i][4] = 255
====
